---- MODULE Spec2Model ----
(***************************************************************************)
(* A model of inputplus.py: the constraint classes, the restricted         *)
(* expression evaluator behind the numeric prompts, and the three prompt   *)
(* loops input_string, input_float and input_int.                          *)
(*                                                                         *)
(* A line of text is a sequence of glyphs.  A glyph is one character,      *)
(* except "True" and "a", which stand for the keyword True and for an      *)
(* identifier character.  Numbers are exact rationals n/d tagged with the  *)
(* Python type that carries them (int, float, bool).                       *)
(***************************************************************************)
EXTENDS Integers, Sequences, FiniteSets, TLC

(***************************************************************************)
(* Bounds of the input space.                                              *)
(***************************************************************************)
\* longest line typed key by key at a prompt
MaxLen == 2
\* most nodes of an expression tree over every operator and leaf kind
MaxNodes == 3
\* most nodes of an integer expression tree (+ - * ** ^, unary -)
MaxIntNodes == 4
\* longest constraint tuple a caller passes
MaxConstraints == 2

(***************************************************************************)
(* Values.                                                                 *)
(***************************************************************************)
RECURSIVE Gcd(_, _)
Gcd(a, b) == IF b = 0 THEN a ELSE Gcd(b, a % b)

Abs(i) == IF i < 0 THEN -i ELSE i

\* a Python object: k is its type; n/d its numeric value; s its text
Val(k, n, d, s) == [k |-> k, n |-> n, d |-> d, s |-> s]

\* the number n/d of type k, in lowest terms (d > 0)
Num(k, n, d) ==
    LET g == Gcd(Abs(n), d)
    IN  Val(k, n \div g, d \div g, <<>>)

PyInt(i) == Num("int", i, 1)
PyStr(s) == Val("str", 0, 1, s)
None == Val("None", 0, 1, <<>>)
TrueConst == Num("bool", 1, 1)
EllipsisConst == Val("ellipsis", 0, 1, <<>>)

\* isinstance(value, (int, float)): bool is a subclass of int
IsIntOrFloat(v) == v.k \in {"int", "float", "bool"}
\* an int or a bool, the operands the bitwise operators accept
IsIntegral(v) == v.k \in {"int", "bool"}

\* the result of a call: a returned value or a raised exception
Return(v) == [st |-> "return", v |-> v, e |-> "none"]
Raise(e) == [st |-> "raise", v |-> None, e |-> e]

(***************************************************************************)
(* Text.                                                                   *)
(***************************************************************************)
Digits == {"0", "1", "2"}
Words == {"True", "a"}
Glyphs == Digits \cup Words \cup {".", "+", "-", "*", "/", "^", "%", "(", ")", " "}

DigitVal(g) == CASE g = "0" -> 0 [] g = "1" -> 1 [] g = "2" -> 2

\* len(text): a word glyph counts its characters
GlyphWidth(g) == IF g = "True" THEN 4 ELSE 1

RECURSIVE PyLen(_)
PyLen(s) == IF s = <<>> THEN 0 ELSE GlyphWidth(Head(s)) + PyLen(Tail(s))

RECURSIVE LStrip(_)
LStrip(s) == IF s # <<>> /\ Head(s) = " " THEN LStrip(Tail(s)) ELSE s

RECURSIVE RStrip(_)
RStrip(s) ==
    IF s # <<>> /\ s[Len(s)] = " " THEN RStrip(SubSeq(s, 1, Len(s) - 1)) ELSE s

\* str.strip()
\* a strip that leaves the trailing blanks
lstrip_only(s) == LStrip(s)

Strip(s) == RStrip(LStrip(s))

RECURSIVE Pow10(_)
Pow10(k) == IF k = 0 THEN 1 ELSE 10 * Pow10(k - 1)

RECURSIVE DigitsToInt(_)
DigitsToInt(s) ==
    IF s = <<>> THEN 0
    ELSE 10 * DigitsToInt(SubSeq(s, 1, Len(s) - 1)) + DigitVal(s[Len(s)])

\* the digits of s, in order
RECURSIVE OnlyDigits(_)
OnlyDigits(s) ==
    IF s = <<>> THEN <<>>
    ELSE IF Head(s) \in Digits THEN <<Head(s)>> \o OnlyDigits(Tail(s))
    ELSE OnlyDigits(Tail(s))

\* float(text): an optional sign, then digits with at most one point and at
\* least one digit; anything else is a ValueError
PyFloat(text) ==
    LET signed == text # <<>> /\ Head(text) \in {"+", "-"}
        body == IF signed THEN Tail(text) ELSE text
        dots == {i \in 1..Len(body) : body[i] = "."}
        wellFormed ==
            /\ \A i \in 1..Len(body) : body[i] \in Digits \cup {"."}
            /\ \E i \in 1..Len(body) : body[i] \in Digits
            /\ Cardinality(dots) <= 1
        fracLen == IF dots = {} THEN 0 ELSE Len(body) - (CHOOSE i \in dots : TRUE)
        mag == DigitsToInt(OnlyDigits(body))
        sign == IF signed /\ Head(text) = "-" THEN -1 ELSE 1
    IN  IF wellFormed
        THEN Return(Num("float", sign * mag, Pow10(fracLen)))
        ELSE Raise("ValueError")

(***************************************************************************)
(* The tokenizer and the expression grammar behind ast.parse(mode="eval"), *)
(* for the glyphs above.                                                   *)
(***************************************************************************)
Tok(t, op, v) == [t |-> t, op |-> op, v |-> v]
Op(op) == Tok("OP", op, None)

\* the first index from i on whose glyph is outside S
RECURSIVE RunEnd(_, _, _)
RunEnd(text, i, S) ==
    IF i <= Len(text) /\ text[i] \in S THEN RunEnd(text, i + 1, S) ELSE i

At(text, i) == IF i >= 1 /\ i <= Len(text) THEN text[i] ELSE "eof"

\* the number token starting at i: its end is the first index after it
NumberEnd(text, i) ==
    LET e1 == RunEnd(text, i, Digits)
    IN  IF At(text, e1) = "." THEN RunEnd(text, e1 + 1, Digits) ELSE e1

NumberTok(text, i) ==
    LET e1 == RunEnd(text, i, Digits)
        e == NumberEnd(text, i)
        ip == SubSeq(text, i, e1 - 1)
        fp == SubSeq(text, e1 + 1, e - 1)
        isFloat == At(text, e1) = "."
        \* a decimal integer with a leading zero must be all zeros
        leadingZero == ~isFloat /\ Len(ip) > 1 /\ ip[1] = "0"
                          /\ \E j \in 1..Len(ip) : ip[j] # "0"
        \* a number runs into an identifier character
        glued == At(text, e) \in Words
    IN  IF leadingZero \/ glued THEN Tok("ERRORTOKEN", "", None)
        ELSE IF isFloat
        THEN Tok("NUMBER", "", Num("float", DigitsToInt(ip \o fp), Pow10(Len(fp))))
        ELSE Tok("NUMBER", "", PyInt(DigitsToInt(ip)))

RECURSIVE Lex(_, _)
Lex(text, i) ==
    IF i > Len(text) THEN <<>>
    ELSE LET g == text[i] IN
        CASE g = " " -> Lex(text, i + 1)
          [] g \in Digits \/ (g = "." /\ At(text, i + 1) \in Digits) ->
                <<NumberTok(text, i)>> \o Lex(text, NumberEnd(text, i))
          [] g \in Words ->
                LET e == RunEnd(text, i, Words \cup Digits)
                IN  <<IF SubSeq(text, i, e - 1) = <<"True">>
                      THEN Tok("TRUE", "", TrueConst)
                      ELSE Tok("NAME", "", None)>> \o Lex(text, e)
          [] g = "." /\ At(text, i + 1) = "." /\ At(text, i + 2) = "." ->
                <<Tok("ELLIPSIS", "", EllipsisConst)>> \o Lex(text, i + 3)
          [] g = "*" /\ At(text, i + 1) = "*" -> <<Op("**")>> \o Lex(text, i + 2)
          [] g = "/" /\ At(text, i + 1) = "/" -> <<Op("//")>> \o Lex(text, i + 2)
          [] OTHER -> <<Op(g)>> \o Lex(text, i + 1)

Tokenize(text) == Lex(text, 1)

\* ast nodes
Constant(v) == <<"Constant", v>>
BinOp(left, op, right) == <<"BinOp", left, op, right>>
UnaryOp(op, operand) == <<"UnaryOp", op, operand>>
\* any other node class: Name, Call, Attribute, Tuple
OtherNode == <<"Other">>
SyntaxError == <<"SyntaxError">>

IsErr(node) == node[1] = "SyntaxError"

Bin(l, op, r) == IF IsErr(l) \/ IsErr(r) THEN SyntaxError ELSE BinOp(l, op, r)
Un(op, x) == IF IsErr(x) THEN SyntaxError ELSE UnaryOp(op, x)

BinOpClass(op) ==
    CASE op = "+" -> "Add" [] op = "-" -> "Sub" [] op = "*" -> "Mult"
      [] op = "/" -> "Div" [] op = "//" -> "FloorDiv" [] op = "%" -> "Mod"
      [] op = "**" -> "Pow" [] op = "^" -> "BitXor"

UnaryOpClass(op) == CASE op = "+" -> "UAdd" [] op = "-" -> "USub"

IsOp(tok, ops) == tok.t = "OP" /\ tok.op \in ops

\* open minus closed parentheses among toks[lo..k-1]
DepthAt(toks, lo, k) ==
    Cardinality({i \in lo..(k - 1) : IsOp(toks[i], {"("})})
        - Cardinality({i \in lo..(k - 1) : IsOp(toks[i], {")"})})

Balanced(toks, lo, hi) ==
    /\ \A k \in lo..hi : DepthAt(toks, lo, k + 1) >= 0
    /\ DepthAt(toks, lo, hi + 1) = 0

\* a token that can end an operand: what follows it is a binary operator
EndsOperand(tok) ==
    tok.t \in {"NUMBER", "NAME", "TRUE", "ELLIPSIS"} \/ IsOp(tok, {")"})

\* the binary operators among ops outside every parenthesis of toks[lo..hi]
TopLevel(toks, lo, hi, ops) ==
    {k \in lo..hi :
        /\ IsOp(toks[k], ops)
        /\ DepthAt(toks, lo, k) = 0
        /\ toks[k].op \in {"+", "-"} => (k > lo /\ EndsOperand(toks[k - 1]))}

SetMax(S) == CHOOSE x \in S : \A y \in S : y <= x
SetMin(S) == CHOOSE x \in S : \A y \in S : x <= y

\* the index of the "(" that the ")" at hi closes, or 0
MatchingOpen(toks, lo, hi) ==
    LET c == {m \in lo..(hi - 1) :
                 IsOp(toks[m], {"("}) /\ Balanced(toks, m, hi)
                     /\ \A j \in (m + 1)..(hi - 1) : DepthAt(toks, m, j + 1) > 0}
    IN  IF c = {} THEN 0 ELSE SetMax(c)

RECURSIVE ParseXor(_, _, _), ParseArith(_, _, _), ParseTerm(_, _, _)
RECURSIVE ParseFactor(_, _, _), ParsePower(_, _, _), ParsePrimary(_, _, _)

\* xor_expr: xor_expr '^' sum | sum
ParseXor(toks, lo, hi) ==
    LET ks == TopLevel(toks, lo, hi, {"^"})
    IN  IF ks = {} THEN ParseArith(toks, lo, hi)
        ELSE LET k == SetMax(ks)
             IN  Bin(ParseXor(toks, lo, k - 1), "BitXor", ParseArith(toks, k + 1, hi))

\* sum: sum ('+' | '-') term | term
ParseArith(toks, lo, hi) ==
    LET ks == TopLevel(toks, lo, hi, {"+", "-"})
    IN  IF ks = {} THEN ParseTerm(toks, lo, hi)
        ELSE LET k == SetMax(ks)
             IN  Bin(ParseArith(toks, lo, k - 1), BinOpClass(toks[k].op),
                     ParseTerm(toks, k + 1, hi))

\* term: term ('*' | '/' | '//' | '%') factor | factor
ParseTerm(toks, lo, hi) ==
    LET ks == TopLevel(toks, lo, hi, {"*", "/", "//", "%"})
    IN  IF ks = {} THEN ParseFactor(toks, lo, hi)
        ELSE LET k == SetMax(ks)
             IN  Bin(ParseTerm(toks, lo, k - 1), BinOpClass(toks[k].op),
                     ParseFactor(toks, k + 1, hi))

\* factor: ('+' | '-') factor | power
ParseFactor(toks, lo, hi) ==
    IF lo > hi THEN SyntaxError
    ELSE IF IsOp(toks[lo], {"+", "-"})
    THEN Un(UnaryOpClass(toks[lo].op), ParseFactor(toks, lo + 1, hi))
    ELSE ParsePower(toks, lo, hi)

\* power: primary '**' factor | primary
ParsePower(toks, lo, hi) ==
    LET ks == TopLevel(toks, lo, hi, {"**"})
    IN  IF ks = {} THEN ParsePrimary(toks, lo, hi)
        ELSE LET k == SetMin(ks)
             IN  Bin(ParsePrimary(toks, lo, k - 1), "Pow", ParseFactor(toks, k + 1, hi))

\* the arguments of a call: none, an expression, or a starred expression
ArgsOk(toks, lo, hi) ==
    \/ lo > hi
    \/ ~IsErr(ParseXor(toks, lo, hi))
    \/ IsOp(toks[lo], {"*", "**"}) /\ ~IsErr(ParseXor(toks, lo + 1, hi))

\* primary: primary '.' NAME | primary '(' args ')' | atom
\* atom: NUMBER | NAME | 'True' | '...' | '(' expression ')' | '(' ')'
ParsePrimary(toks, lo, hi) ==
    IF lo > hi THEN SyntaxError
    ELSE IF lo = hi
    THEN CASE toks[lo].t \in {"NUMBER", "TRUE", "ELLIPSIS"} -> Constant(toks[lo].v)
           [] toks[lo].t = "NAME" -> OtherNode
           [] OTHER -> SyntaxError
    ELSE IF IsOp(toks[hi], {")"})
    THEN LET m == MatchingOpen(toks, lo, hi)
         IN  IF m = 0 THEN SyntaxError
             ELSE IF m = lo
             THEN (IF hi = lo + 1 THEN OtherNode ELSE ParseXor(toks, lo + 1, hi - 1))
             ELSE IF ~IsErr(ParsePrimary(toks, lo, m - 1)) /\ ArgsOk(toks, m + 1, hi - 1)
             THEN OtherNode
             ELSE SyntaxError
    ELSE IF toks[hi].t = "NAME" /\ IsOp(toks[hi - 1], {"."}) /\ hi - 2 >= lo
    THEN (IF IsErr(ParsePrimary(toks, lo, hi - 2)) THEN SyntaxError ELSE OtherNode)
    ELSE SyntaxError

\* ast.parse(text, mode="eval").body
AstParse(text) ==
    LET toks == Tokenize(text)
    IN  IF \E i \in 1..Len(toks) : toks[i].t = "ERRORTOKEN" THEN SyntaxError
        ELSE IF ~Balanced(toks, 1, Len(toks)) THEN SyntaxError
        ELSE ParseXor(toks, 1, Len(toks))

(***************************************************************************)
(* The functions of the operator module that the table names.              *)
(***************************************************************************)
RECURSIVE IntPow(_, _)
IntPow(b, e) == IF e = 0 THEN 1 ELSE b * IntPow(b, e - 1)

\* bitwise xor of two naturals
RECURSIVE XorNat(_, _)
XorNat(a, b) ==
    IF a = 0 THEN b
    ELSE IF b = 0 THEN a
    ELSE (((a % 2) + (b % 2)) % 2) + 2 * XorNat(a \div 2, b \div 2)

\* bitwise xor of two's-complement integers: ~i = -i - 1
XorInt(a, b) ==
    CASE a >= 0 /\ b >= 0 -> XorNat(a, b)
      [] a < 0 /\ b < 0 -> XorNat(-a - 1, -b - 1)
      [] a < 0 /\ b >= 0 -> -XorNat(-a - 1, b) - 1
      [] a >= 0 /\ b < 0 -> -XorNat(a, -b - 1) - 1

\* the type of an arithmetic result
ArithKind(a, b) == IF a.k = "float" \/ b.k = "float" THEN "float" ELSE "int"

add(a, b) == Return(Num(ArithKind(a, b), a.n * b.d + b.n * a.d, a.d * b.d))
sub(a, b) == Return(Num(ArithKind(a, b), a.n * b.d - b.n * a.d, a.d * b.d))
mul(a, b) == Return(Num(ArithKind(a, b), a.n * b.n, a.d * b.d))

truediv(a, b) ==
    IF b.n = 0 THEN Raise("ZeroDivisionError")
    ELSE Return(Num("float", (IF b.n < 0 THEN -1 ELSE 1) * a.n * b.d, a.d * Abs(b.n)))

\* a ** b for an integral exponent b (b.d = 1)
PowIntegral(k, a, b) ==
    IF b.n >= 0 THEN Return(Num(k, IntPow(a.n, b.n), IntPow(a.d, b.n)))
    ELSE IF a.n = 0 THEN Raise("ZeroDivisionError")
    ELSE Return(Num("float",
                    (IF a.n < 0 /\ (b.n % 2) = 1 THEN -1 ELSE 1) * IntPow(a.d, -b.n),
                    IntPow(Abs(a.n), -b.n)))

\* a ** b.  A fractional power of a number other than 0 and 1 is irrational
\* or complex: the model has no value for it.
pow(a, b) ==
    IF b.d = 1 THEN PowIntegral(ArithKind(a, b), a, b)
    ELSE IF a.n = 0 THEN (IF b.n < 0 THEN Raise("ZeroDivisionError")
                          ELSE Return(Num("float", 0, 1)))
    ELSE IF a.n = a.d THEN Return(Num("float", 1, 1))
    ELSE Raise("Unmodelled")

xor(a, b) ==
    IF IsIntegral(a) /\ IsIntegral(b)
    THEN Return(Num(IF a.k = "bool" /\ b.k = "bool" THEN "bool" ELSE "int",
                    XorInt(a.n, b.n), 1))
    ELSE Raise("TypeError")

neg(a) == Return(Num(IF a.k = "float" THEN "float" ELSE "int", -a.n, a.d))

\* fn(a, b) for a function of the operator module
Call2(fn, a, b) ==
    CASE fn = "add" -> add(a, b)
      [] fn = "sub" -> sub(a, b)
      [] fn = "mul" -> mul(a, b)
      [] fn = "truediv" -> truediv(a, b)
      [] fn = "pow" -> pow(a, b)
      [] fn = "xor" -> xor(a, b)
      [] OTHER -> Raise("TypeError")

Call1(fn, a) ==
    CASE fn = "neg" -> neg(a)
      [] OTHER -> Raise("TypeError")

\* a table that reads ^ as a power
caret_as_power ==
    [Add |-> "add", Sub |-> "sub", Mult |-> "mul", Div |-> "truediv",
     Pow |-> "pow", BitXor |-> "pow", USub |-> "neg"]

(***************************************************************************)
(* The expression evaluator.                                               *)
(***************************************************************************)
operators ==
    [Add |-> "add", Sub |-> "sub", Mult |-> "mul", Div |-> "truediv",
     Pow |-> "pow", BitXor |-> "xor", USub |-> "neg"]

\* the operand values reach the operator only if both evaluations returned;
\* the left operand is evaluated first
RECURSIVE eval_(_)
eval_(node) ==
    CASE node[1] = "Constant" /\ IsIntOrFloat(node[2]) -> Return(node[2])
      [] node[1] = "BinOp" ->
            IF node[3] \notin DOMAIN operators THEN Raise("KeyError")
            ELSE LET l == eval_(node[2])
                 IN  IF l.st = "raise" THEN l
                     ELSE LET r == eval_(node[4])
                          IN  IF r.st = "raise" THEN r
                              ELSE Call2(operators[node[3]], l.v, r.v)
      [] node[1] = "UnaryOp" ->
            IF node[2] \notin DOMAIN operators THEN Raise("KeyError")
            ELSE LET o == eval_(node[3])
                 IN  IF o.st = "raise" THEN o ELSE Call1(operators[node[2]], o.v)
      [] OTHER -> Raise("TypeError")

\* __eval_(ast.parse(expr, mode="eval").body): ast.parse raises SyntaxError
EvalBody(body) == IF IsErr(body) THEN Raise("SyntaxError") ELSE eval_(body)

eval_expr(expr) == EvalBody(AstParse(expr))

\* except TypeError: return None / except SyntaxError: return None; any
\* other exception leaves the function
ExceptTypeOrSyntaxError(r) ==
    IF r.st = "raise" /\ r.e \in {"TypeError", "SyntaxError"} THEN Return(None) ELSE r

\* try: return float(text) / except ValueError: the handler's outcome
ExceptValueError(f, handled) == IF f.st = "return" THEN f ELSE handled

try_to_convert_to_float(text) ==
    ExceptValueError(PyFloat(text), ExceptTypeOrSyntaxError(eval_expr(text)))

(***************************************************************************)
(* The constraint classes.  The body of class Constraint binds its class   *)
(* names in source order; a later binding of a name replaces an earlier.   *)
(***************************************************************************)
ClassDef(name, test, template) == [name |-> name, test |-> test, template |-> template]

ConstraintBody ==
    << ClassDef("Min", "ge", "Input must be at least "),
       ClassDef("Max", "le", "Input must be at most "),
       ClassDef("Min", "gt", "Input must be greater than "),
       ClassDef("Max", "lt", "Input must be less than "),
       ClassDef("DivisibleBy", "divisible", "Input must be divisible by "),
       ClassDef("NotDivisibleBy", "not_divisible", "Input must not be divisible by "),
       ClassDef("MinLen", "min_len", "Input must have at least "),
       ClassDef("MaxLen", "max_len", "Input must have at most "),
       ClassDef("Int", "integer", "Input must be an integer") >>

\* the first binding of the name: the definition a later one shadows
ShadowedClass(name) ==
    ConstraintBody[SetMin({i \in 1..Len(ConstraintBody) : ConstraintBody[i].name = name})]

\* Constraint.<name>: the binding in force once the class body has run
ConstraintClass(name) ==
    ConstraintBody[SetMax({i \in 1..Len(ConstraintBody) : ConstraintBody[i].name = name})]

\* Constraint.<name>(arg); Constraint.Int() takes no argument
New(name, arg) == [cls |-> ConstraintClass(name), arg |-> arg]

\* the f-string of __init__: the template, then the argument
error_message(c) ==
    CASE c.cls.test = "integer" -> <<c.cls.template>>
      [] c.cls.test \in {"min_len", "max_len"} -> <<c.cls.template, c.arg, " characters">>
      [] OTHER -> <<c.cls.template, c.arg>>

\* value % q == 0 for an integer q > 0
IsMultiple(value, q) == value.d = 1 /\ value.n % q = 0

\* constraint.satisfies(value); value is a number for the numeric classes
\* and a string for the length classes
satisfies(c, value) ==
    CASE c.cls.test = "ge" -> value.n >= c.arg * value.d
      [] c.cls.test = "le" -> value.n <= c.arg * value.d
      [] c.cls.test = "gt" -> value.n > c.arg * value.d
      [] c.cls.test = "lt" -> value.n < c.arg * value.d
      [] c.cls.test = "divisible" -> IsMultiple(value, c.arg)
      [] c.cls.test = "not_divisible" -> ~IsMultiple(value, c.arg)
      [] c.cls.test = "min_len" -> PyLen(value.s) >= c.arg
      [] c.cls.test = "max_len" -> PyLen(value.s) <= c.arg
      [] c.cls.test = "integer" -> IsMultiple(value, 1)

\* no message: the None that get_first_constraint_error returns by falling
\* off its loop
NoError == <<>>

\* the loop over constraints[i..]: the message of the first constraint the
\* value fails, and how many constraints were asked
RECURSIVE FirstErrorFrom(_, _, _)
FirstErrorFrom(value, constraints, i) ==
    IF i > Len(constraints) THEN [error |-> NoError, asked |-> i - 1]
    ELSE IF ~satisfies(constraints[i], value)
    THEN [error |-> error_message(constraints[i]), asked |-> i]
    ELSE FirstErrorFrom(value, constraints, i + 1)

\* a loop that gives up after its first constraint
first_constraint_only(value, constraints) ==
    FirstErrorFrom(value, SubSeq(constraints, 1, SetMin({1, Len(constraints)})), 1)

\* a loop that remembers the last failure instead of returning the first
RECURSIVE LastErrorFrom(_, _, _)
LastErrorFrom(value, constraints, i) ==
    IF i = 0 THEN [error |-> NoError, asked |-> Len(constraints)]
    ELSE IF ~satisfies(constraints[i], value)
    THEN [error |-> error_message(constraints[i]), asked |-> Len(constraints)]
    ELSE LastErrorFrom(value, constraints, i - 1)

last_constraint_error(value, constraints) ==
    LastErrorFrom(value, constraints, Len(constraints))

get_first_constraint_error(value, constraints) == FirstErrorFrom(value, constraints, 1)

\* int(x) of a number: truncation toward zero
PyIntOf(v) == PyInt((IF v.n < 0 THEN -1 ELSE 1) * (Abs(v.n) \div v.d))

\* the integer test put before the caller's constraints
int_constraint_first(input_constraints) == <<New("Int", 0)>> \o input_constraints

\* the tuple input_int hands to input_float
input_int_constraints(input_constraints) == input_constraints \o <<New("Int", 0)>>

(***************************************************************************)
(* The lines a user types.  Beside every short glyph sequence, the lines   *)
(* hold the source text of every small expression tree, written with the   *)
(* parentheses that Python's operator precedence requires.                 *)
(***************************************************************************)
RECURSIVE SeqsUpTo(_, _)
SeqsUpTo(S, n) ==
    IF n = 0 THEN {<<>>}
    ELSE LET shorter == SeqsUpTo(S, n - 1)
         IN  shorter \cup {Append(s, g) : s \in shorter, g \in S}

\* the trees of exactly n nodes
RECURSIVE TreesOfSize(_, _, _, _)
TreesOfSize(n, leaves, binops, unops) ==
    IF n = 1 THEN leaves
    ELSE {UnaryOp(u, t) : u \in unops, t \in TreesOfSize(n - 1, leaves, binops, unops)}
         \cup UNION {
                {BinOp(l, b, r) : b \in binops,
                                  l \in TreesOfSize(k, leaves, binops, unops),
                                  r \in TreesOfSize(n - 1 - k, leaves, binops, unops)}
                : k \in 1..(n - 2)}

TreesUpTo(n, leaves, binops, unops) ==
    UNION {TreesOfSize(k, leaves, binops, unops) : k \in 1..n}

IntLeaves == {Constant(PyInt(i)) : i \in 0..2}

\* every operator and leaf kind of the glyphs
ExprTrees ==
    TreesUpTo(MaxNodes, IntLeaves \cup {Constant(TrueConst), OtherNode},
              {"Add", "Sub", "Mult", "Div", "FloorDiv", "Mod", "Pow", "BitXor"},
              {"USub", "UAdd"})

\* the integer expressions: + - * ** ^ and unary - over integer literals
IntExprTrees ==
    TreesUpTo(MaxIntNodes, IntLeaves, {"Add", "Sub", "Mult", "Pow", "BitXor"}, {"USub"})

\* binding strength of a node, weakest first
Prec(node) ==
    CASE node[1] = "BinOp" /\ node[3] = "BitXor" -> 1
      [] node[1] = "BinOp" /\ node[3] \in {"Add", "Sub"} -> 2
      [] node[1] = "BinOp" /\ node[3] \in {"Mult", "Div", "FloorDiv", "Mod"} -> 3
      [] node[1] = "UnaryOp" -> 4
      [] node[1] = "BinOp" /\ node[3] = "Pow" -> 5
      [] OTHER -> 6

Symbol(op) ==
    CASE op = "Add" -> <<"+">> [] op = "Sub" -> <<"-">> [] op = "Mult" -> <<"*">>
      [] op = "Div" -> <<"/">> [] op = "FloorDiv" -> <<"/", "/">> [] op = "Mod" -> <<"%">>
      [] op = "Pow" -> <<"*", "*">>
      [] op = "BitXor" -> <<"^">> [] op = "USub" -> <<"-">> [] op = "UAdd" -> <<"+">>

DigitGlyph(i) == CASE i = 0 -> "0" [] i = 1 -> "1" [] i = 2 -> "2"

\* the source text of a tree where an operand of strength below min is
\* parenthesized
RECURSIVE Render(_, _)
Render(node, min) ==
    LET body ==
            CASE node[1] = "Constant" ->
                    IF node[2].k = "bool" THEN <<"True">> ELSE <<DigitGlyph(node[2].n)>>
              [] node[1] = "Other" -> <<"a">>
              [] node[1] = "UnaryOp" -> Symbol(node[2]) \o Render(node[3], 4)
              [] node[1] = "BinOp" /\ node[3] = "Pow" ->
                    Render(node[2], 6) \o Symbol("Pow") \o Render(node[4], 4)
              [] node[1] = "BinOp" /\ node[3] # "Pow" ->
                    Render(node[2], Prec(node)) \o Symbol(node[3])
                        \o Render(node[4], Prec(node) + 1)
    IN  IF Prec(node) < min THEN <<"(">> \o body \o <<")">> ELSE body

SourceOf(tree) == Render(tree, 1)

\* the expressions a user types: a fractional power, whose value the model
\* cannot carry, is left out
Expressions ==
    {t \in ExprTrees \cup IntExprTrees :
        try_to_convert_to_float(SourceOf(t)).e # "Unmodelled"}

\* no expression: the line was typed key by key
NoExpr == <<"None">>

\* the keys of the short lines: a digit, the point, a sign, the space, the
\* word glyphs and the parentheses
Keys == {"1", ".", "-", " ", "a", "True", "(", ")"}

KeyLines == SeqsUpTo(Keys, MaxLen)

\* the constraints a caller builds for a numeric prompt and for a string prompt
NumericConstraints == {New("Min", 0), New("DivisibleBy", 2)}
LengthConstraints == {New("MinLen", 2), New("MaxLen", 5)}

NumericTuples == SeqsUpTo(NumericConstraints, MaxConstraints)
LengthTuples == SeqsUpTo(LengthConstraints, MaxConstraints)

(***************************************************************************)
(* The prompt loops.                                                       *)
(***************************************************************************)
VARIABLES
    fn,                 \* the entry point the host called
    args,               \* the constraints the host passed
    input_constraints,  \* the constraints of the running loop
    pc,                 \* where the loop is
    expr,               \* the expression whose source was typed, if one was
    text,               \* the line read (input_float strips it on reading)
    x,                  \* the converted value
    printed,            \* the diagnostics printed since the last prompt
    asked,              \* the constraints asked since the last prompt
    result              \* what the call returned, or the exception it raised

vars == <<fn, args, input_constraints, pc, expr, text, x, printed, asked, result>>

InvalidExpression == <<"Invalid expression">>

Init ==
    /\ fn = "none"
    /\ args = <<>>
    /\ input_constraints = <<>>
    /\ pc = "idle"
    /\ expr = NoExpr
    /\ text = <<>>
    /\ x = None
    /\ printed = <<>>
    /\ asked = 0
    /\ result = Return(None)

\* input_float(prompt, input_constraints)
input_float ==
    /\ pc = "idle"
    /\ \E cs \in NumericTuples :
          /\ args' = cs
          /\ input_constraints' = cs
    /\ fn' = "input_float"
    /\ pc' = "Reading"
    /\ UNCHANGED <<expr, text, x, printed, asked, result>>

\* input_int(prompt, input_constraints) calls input_float
input_int ==
    /\ pc = "idle"
    /\ \E cs \in NumericTuples :
          /\ args' = cs
          /\ input_constraints' = input_int_constraints(cs)
    /\ fn' = "input_int"
    /\ pc' = "Reading"
    /\ UNCHANGED <<expr, text, x, printed, asked, result>>

\* input_string(prompt, input_constraints)
input_string ==
    /\ pc = "idle"
    /\ \E cs \in LengthTuples :
          /\ args' = cs
          /\ input_constraints' = cs
    /\ fn' = "input_string"
    /\ pc' = "Reading"
    /\ UNCHANGED <<expr, text, x, printed, asked, result>>

\* text = input(prompt + "\n"): input_float strips the line as it reads it
Read(line) ==
    /\ text' = IF fn = "input_string" THEN line ELSE Strip(line)
    /\ pc' = "Converting"
    /\ UNCHANGED <<fn, args, input_constraints, x, printed, asked, result>>

\* the user types a short line key by key
TypeKeys ==
    /\ pc = "Reading"
    /\ \E line \in KeyLines :
          /\ Read(line)
          /\ expr' = NoExpr

\* the user types the source of an expression
TypeExpression ==
    /\ pc = "Reading"
    /\ \E t \in Expressions :
          /\ Read(SourceOf(t))
          /\ expr' = t

\* x = __try_to_convert_to_float(text), which returned a number
Converted(r) ==
    /\ r.st = "return" /\ r.v # None
    /\ x' = r.v
    /\ pc' = "ConstraintChecking"
    /\ UNCHANGED <<fn, args, input_constraints, expr, text, printed, asked, result>>

\* x is None: print("Invalid expression")
Invalid(r) ==
    /\ r.st = "return" /\ r.v = None
    /\ printed' = Append(printed, InvalidExpression)
    /\ pc' = "Rejected"
    /\ UNCHANGED <<fn, args, input_constraints, expr, text, x, asked, result>>

\* an exception that __try_to_convert_to_float does not catch leaves
\* input_float, and input_int, for the host
Raised(r) ==
    /\ r.st = "raise"
    /\ result' = r
    /\ pc' = "Raised"
    /\ UNCHANGED <<fn, args, input_constraints, expr, text, x, printed, asked>>

ConvertNumber ==
    /\ pc = "Converting" /\ fn # "input_string"
    /\ Converted(try_to_convert_to_float(text))

ConvertInvalid ==
    /\ pc = "Converting" /\ fn # "input_string"
    /\ Invalid(try_to_convert_to_float(text))

ConvertRaises ==
    /\ pc = "Converting" /\ fn # "input_string"
    /\ Raised(try_to_convert_to_float(text))

\* x = text.strip()
StripText ==
    /\ pc = "Converting" /\ fn = "input_string"
    /\ x' = PyStr(Strip(text))
    /\ pc' = "ConstraintChecking"
    /\ UNCHANGED <<fn, args, input_constraints, expr, text, printed, asked, result>>

\* what the entry point returns for the accepted x
ReturnValue(f, v) == IF f = "input_int" THEN PyIntOf(v) ELSE v

\* error is not None: print(error)
Rejected(e) ==
    /\ e.error # NoError
    /\ printed' = Append(printed, e.error)
    /\ asked' = e.asked
    /\ pc' = "Rejected"
    /\ UNCHANGED <<fn, args, input_constraints, expr, text, x, result>>

Reject ==
    /\ pc = "ConstraintChecking"
    /\ Rejected(get_first_constraint_error(x, input_constraints))

\* continue: back to the prompt.  text and x are assigned again before they
\* are read, so the loop at the prompt is the loop as it was entered.
Continue ==
    /\ pc = "Rejected"
    /\ pc' = "Reading"
    /\ expr' = NoExpr
    /\ text' = <<>>
    /\ x' = None
    /\ printed' = <<>>
    /\ asked' = 0
    /\ UNCHANGED <<fn, args, input_constraints, result>>

\* error is None: break; return x
Accepted(e) ==
    /\ e.error = NoError
    /\ asked' = e.asked
    /\ result' = Return(ReturnValue(fn, x))
    /\ pc' = "Accepted"
    /\ UNCHANGED <<fn, args, input_constraints, expr, text, x, printed>>

Accept ==
    /\ pc = "ConstraintChecking"
    /\ Accepted(get_first_constraint_error(x, input_constraints))

Next ==
    \/ input_float
    \/ input_int
    \/ input_string
    \/ TypeKeys
    \/ TypeExpression
    \/ ConvertNumber
    \/ ConvertInvalid
    \/ ConvertRaises
    \/ StripText
    \/ Reject
    \/ Continue
    \/ Accept

Spec == Init /\ [][Next]_vars

(***************************************************************************)
(* Properties of the prompt loops.                                         *)
(***************************************************************************)
Numeric == fn \in {"input_float", "input_int"}

\* the conversion of the line read has ended
ConversionDone ==
    Numeric /\ pc \in {"ConstraintChecking", "Rejected", "Accepted", "Raised"}

\* the line read was turned down as not a number
TurnedDown == pc = "Rejected" /\ x = None /\ printed = <<InvalidExpression>>

\* the loop holds a value that went through the constraints
Checked == pc \in {"Rejected", "Accepted"} /\ x # None

SatisfiesAll(value, constraints) ==
    \A i \in 1..Len(constraints) : satisfies(constraints[i], value)

\* C1: input_float and input_string return a value only if it satisfies
\* every constraint the caller passed, so validating the returned value once
\* more finds no failing constraint.
C1_ReturnedValueSatisfiesAll ==
    (pc = "Accepted" /\ fn \in {"input_float", "input_string"})
        => /\ result.st = "return"
           /\ SatisfiesAll(result.v, args)

\* a number that passes two different constraints is returned
C1_Witness ==
    /\ pc = "Accepted" /\ fn = "input_float"
    /\ args = <<New("Min", 0), New("DivisibleBy", 2)>>
    /\ result.v.n = 2 /\ result.v.d = 1

\* C2 as stated: in input_float every line that fails conversion or a
\* constraint sends the loop back to the prompt after one diagnostic, and the
\* call returns at the first line that converts and passes; no step leaves
\* the loop any other way.
C2_EveryLineReturnsOrReprompts ==
    [][fn = "input_float" =>
          /\ pc = "Converting" =>
                \/ pc' = "ConstraintChecking"
                \/ pc' = "Rejected" /\ printed' = <<InvalidExpression>>
          /\ pc = "ConstraintChecking" =>
                \/ pc' = "Accepted" /\ result' = Return(x)
                \/ pc' = "Rejected" /\ Len(printed') = 1
          /\ pc = "Rejected" => pc' = "Reading"
          /\ pc # "Accepted"]_vars

\* a literal divided by the literal zero
DividesByZero(t) ==
    /\ t[1] = "BinOp" /\ t[3] = "Div"
    /\ t[2] \in IntLeaves
    /\ t[4] = Constant(PyInt(0))

\* C3 as stated: a line whose evaluation divides by zero is turned down
\* with "Invalid expression" like an unparsable line, and no error reaches
\* the caller.
C3_DivisionByZeroTurnedDown ==
    (ConversionDone /\ expr # NoExpr /\ DividesByZero(expr)) => TurnedDown

\* the tree applies an operator that the table does not hold
RECURSIVE UsesOtherOperator(_)
UsesOtherOperator(t) ==
    CASE t[1] = "BinOp" ->
            \/ t[3] \notin DOMAIN operators
            \/ UsesOtherOperator(t[2])
            \/ UsesOtherOperator(t[4])
      [] t[1] = "UnaryOp" -> t[2] \notin DOMAIN operators \/ UsesOtherOperator(t[3])
      [] OTHER -> FALSE

\* C4 as stated: a line that parses as an expression with an operator
\* outside the table (%, //, unary +) converts to the sentinel, so the
\* attempt ends with "Invalid expression".
C4_OtherOperatorTurnedDown ==
    (ConversionDone /\ expr # NoExpr /\ UsesOtherOperator(expr)) => TurnedDown

\* the tree holds a leaf that is not an integer literal: a name or a boolean
RECURSIVE HasOtherLeaf(_)
HasOtherLeaf(t) ==
    CASE t[1] = "BinOp" -> HasOtherLeaf(t[2]) \/ HasOtherLeaf(t[4])
      [] t[1] = "UnaryOp" -> HasOtherLeaf(t[3])
      [] OTHER -> t \notin IntLeaves

\* C5 as stated: a line with a name or a non-numeric constant such as a
\* boolean is never converted to a value.
C5_NonNumericNeverConverted ==
    (ConversionDone /\ expr # NoExpr /\ HasOtherLeaf(expr) /\ ~UsesOtherOperator(expr))
        => x = None

\* C6: an attempt whose value fails a constraint prints exactly one message,
\* that of the lowest-index failing constraint, and asks no constraint after
\* it; a value is accepted only when none fails; an attempt whose conversion
\* fails prints only "Invalid expression" and asks no constraint.
C6_FirstFailureOnly ==
    /\ (pc = "Rejected" /\ x # None) =>
          \E i \in 1..Len(input_constraints) :
              /\ ~satisfies(input_constraints[i], x)
              /\ \A j \in 1..(i - 1) : satisfies(input_constraints[j], x)
              /\ printed = <<error_message(input_constraints[i])>>
              /\ asked = i
    /\ pc = "Accepted" =>
          /\ SatisfiesAll(x, input_constraints)
          /\ printed = <<>>
    /\ (pc = "Rejected" /\ x = None) =>
          /\ printed = <<InvalidExpression>>
          /\ asked = 0
    /\ pc = "Raised" => (printed = <<>> /\ asked = 0)

\* -1 fails both constraints and only the first is reported
C6_Witness ==
    /\ pc = "Rejected" /\ fn = "input_float"
    /\ input_constraints = <<New("Min", 0), New("DivisibleBy", 2)>>
    /\ x.n = -1 /\ x.d = 1
    /\ printed = <<error_message(New("Min", 0))>>
    /\ asked = 1

IntegerMessage == <<"Input must be an integer">>

\* C7: input_int runs the loop of input_float with the caller's constraints
\* first and the integer test last; a non-integral value is turned down with
\* "Input must be an integer" once it passes the caller's constraints, and
\* is never returned; the value returned is the int equal to the number
\* accepted.
C7_IntegerTestLast ==
    fn = "input_int" =>
        /\ Len(input_constraints) = Len(args) + 1
        /\ SubSeq(input_constraints, 1, Len(args)) = args
        /\ input_constraints[Len(input_constraints)].cls.name = "Int"
        /\ (Checked /\ x.d # 1 /\ SatisfiesAll(x, args)) =>
              (pc = "Rejected" /\ printed = <<IntegerMessage>>)
        /\ (pc = "Rejected" /\ printed = <<IntegerMessage>>) =>
              (x.d # 1 /\ SatisfiesAll(x, args))
        /\ pc = "Accepted" =>
              /\ x.d = 1
              /\ result = Return(PyInt(x.n))

\* a half passes Min(0) and is turned down by the integer test
C7_Witness ==
    /\ fn = "input_int" /\ pc = "Rejected"
    /\ args = <<New("Min", 0)>>
    /\ x.n = 1 /\ x.d = 2
    /\ printed = <<IntegerMessage>>

\* C8: Constraint.Min is the exclusive bound: under [Min(m)] a value v <= m
\* is turned down with "Input must be greater than m" and a value v > m is
\* returned.
C8_MinIsExclusive ==
    /\ ConstraintClass("Min").test = "gt"
    /\ (fn = "input_float" /\ Len(args) = 1 /\ args[1].cls.name = "Min" /\ Checked) =>
          IF x.n > args[1].arg * x.d
          THEN pc = "Accepted" /\ result = Return(x)
          ELSE /\ pc = "Rejected"
               /\ printed = << <<"Input must be greater than ", args[1].arg>> >>

\* the bound itself is turned down
C8_Witness ==
    /\ fn = "input_float" /\ pc = "Rejected"
    /\ args = <<New("Min", 0)>>
    /\ x # None /\ x.n = 0
    /\ printed = << <<"Input must be greater than ", 0>> >>

Blanks(s) == \A i \in 1..Len(s) : s[i] = " "

\* t is s without its leading and trailing blanks
Trimmed(s, t) ==
    /\ t = <<>> \/ (Head(t) # " " /\ t[Len(t)] # " ")
    /\ \E i \in 0..Len(s) : \E j \in i..Len(s) :
          /\ Blanks(SubSeq(s, 1, i))
          /\ t = SubSeq(s, i + 1, j)
          /\ Blanks(SubSeq(s, j + 1, Len(s)))

\* C9: input_string strips the line and applies the constraints to the
\* stripped text, whose length is measured after trimming; the text returned
\* is the stripped one; "Invalid expression" is never printed and no line
\* raises.
C9_StrippedTextChecked ==
    fn = "input_string" =>
        /\ pc \in {"idle", "Reading", "Converting", "ConstraintChecking",
                   "Rejected", "Accepted"}
        /\ pc \in {"ConstraintChecking", "Rejected", "Accepted"} =>
              (x.k = "str" /\ Trimmed(text, x.s))
        /\ \A i \in 1..Len(printed) : printed[i] # InvalidExpression
        /\ pc = "Rejected" =>
              \E i \in 1..Len(args) :
                  /\ ~satisfies(args[i], x)
                  /\ printed = <<error_message(args[i])>>
        /\ pc = "Accepted" =>
              /\ SatisfiesAll(x, args)
              /\ result = Return(x)

\* a line of two glyphs whose stripped text has one fails MinLen(2)
C9_Witness ==
    /\ fn = "input_string" /\ pc = "Rejected"
    /\ text = <<" ", "a">>
    /\ args = <<New("MinLen", 2)>>
    /\ x = PyStr(<<"a">>)
    /\ printed = <<error_message(New("MinLen", 2))>>

\* an expression over integer literals with + - * ** ^ and unary -
RECURSIVE IsIntExpr(_)
IsIntExpr(t) ==
    CASE t[1] = "Constant" -> t \in IntLeaves
      [] t[1] = "BinOp" ->
            /\ t[3] \in {"Add", "Sub", "Mult", "Pow", "BitXor"}
            /\ IsIntExpr(t[2])
            /\ IsIntExpr(t[4])
      [] t[1] = "UnaryOp" -> t[2] = "USub" /\ IsIntExpr(t[3])
      [] OTHER -> FALSE

\* the integer an integer expression denotes, bottom-up; a power with a
\* negative exponent denotes none and counts as 0 here
RECURSIVE IntValue(_)
IntValue(t) ==
    CASE t[1] = "Constant" -> t[2].n
      [] t[1] = "UnaryOp" -> 0 - IntValue(t[3])
      [] t[1] = "BinOp" /\ t[3] = "Add" -> IntValue(t[2]) + IntValue(t[4])
      [] t[1] = "BinOp" /\ t[3] = "Sub" -> IntValue(t[2]) - IntValue(t[4])
      [] t[1] = "BinOp" /\ t[3] = "Mult" -> IntValue(t[2]) * IntValue(t[4])
      [] t[1] = "BinOp" /\ t[3] = "BitXor" -> XorInt(IntValue(t[2]), IntValue(t[4]))
      [] t[1] = "BinOp" /\ t[3] = "Pow" ->
            IF IntValue(t[4]) < 0 THEN 0 ELSE IntPow(IntValue(t[2]), IntValue(t[4]))

\* no power of the expression has a negative exponent
RECURSIVE ExponentsNonNegative(_)
ExponentsNonNegative(t) ==
    CASE t[1] = "UnaryOp" -> ExponentsNonNegative(t[3])
      [] t[1] = "BinOp" ->
            /\ ExponentsNonNegative(t[2])
            /\ ExponentsNonNegative(t[4])
            /\ t[3] = "Pow" => IntValue(t[4]) >= 0
      [] OTHER -> TRUE

\* digits with at most one point among them
PlainLiteral(s) ==
    /\ \A i \in 1..Len(s) : s[i] \in Digits \cup {"."}
    /\ \E i \in 1..Len(s) : s[i] \in Digits
    /\ Cardinality({i \in 1..Len(s) : s[i] = "."}) <= 1

\* the digits after the point
FractionDigits(s) ==
    IF \E i \in 1..Len(s) : s[i] = "."
    THEN Len(s) - (CHOOSE i \in 1..Len(s) : s[i] = ".")
    ELSE 0

\* the conversion gave the float of the plain literal read
LiteralConverted ==
    /\ pc # "Raised" /\ x.k = "float"
    /\ x.n * Pow10(FractionDigits(text)) = x.d * DigitsToInt(OnlyDigits(text))

====
